---- MODULE Spec2Model ----
(***************************************************************************)
(* Verification model of the VPN dashboards of this repository.            *)
(*                                                                         *)
(* WireGuard manager: the web server's POST/DELETE /api/clients handlers   *)
(* (src/unnamed/part_000) spawn the wg-manage shell script                 *)
(* (src/openvpn/ui/app.js, lines 997-1386).  Every request runs the script *)
(* as its own OS process; the processes share the clients directory,       *)
(* wg0.conf and the NEXT_IP line of config.env, and take no lock.  The     *)
(* script runs under `set -euo pipefail`, so a failing command ends it     *)
(* with a non-zero status at that line.                                    *)
(***************************************************************************)
EXTENDS Integers, Sequences, FiniteSets, TLC

(***************************************************************************)
(* Bounds of the model.                                                    *)
(***************************************************************************)
\* number of requests the web server has in flight at once
NumSlots == 2
\* number of add-client runs that get as far as generating a key
MaxAdds == 2

(***************************************************************************)
(* Program constants.                                                      *)
(***************************************************************************)
\* get_next_ip: the default host number when NEXT_IP is not set
FirstIp == 2
\* last host number of the 10.8.0.0/24 tunnel network
PoolLast == 254

Slots == 1..NumSlots
Keys == 1..MaxAdds

\* Client names as character sequences; the second has the first as a prefix.
Names == { <<"a">>, <<"a", "b">> }

\* The host numbers a client of the 10.8.0.0/24 network can have.
Pool == FirstIp..PoolLast

VARIABLES
    clientConf,   \* clients/<name>.conf : NoFile or [ip, key]
    clientPng,    \* names with a clients/<name>.png
    wgConf,       \* /etc/wireguard/wg0.conf, a sequence of lines
    nextIp,       \* the NEXT_IP value in config.env
    keyCtr,       \* number of keys `wg genkey` has produced
    slot,         \* per request: handler / script position and locals
    acked,        \* history: keys whose add-client ended with status 0
    revoked       \* history: [key, ip] removed by a remove-client that ended with status 0

\* Outline API (src/outline/api/server.js): the in-memory user list of the
\* Express process, the access keys of the Outline server it calls, and the
\* requests in flight.
VARIABLES
    users,        \* `let users = []`: sequence of user ids, in list order
    okeys,        \* access-key ids the Outline server holds
    oNextId,      \* number of access keys the Outline server has created
    uuidCtr,      \* number of ids uuidv4() has produced
    oslot,        \* per request: handler position and locals
    returned,     \* history: ids answered by POST /api/users with 201, in order,
                  \* each with the ids deleted before it was answered
    deletedOk     \* history: ids for which DELETE answered 'User deleted successfully'

\* WireGuard web server (src/unnamed/part_000): the middleware chain in front
\* of the /api routes.
VARIABLES
    hits,         \* express-rate-limit: requests counted in the current window
    areq          \* the request being handled, or the last one answered

\* OpenVPN API (src/openvpn/ui/app.js, lines 661-996): the easy-rsa PKI, the
\* client profiles and the server configuration it manages.
VARIABLES
    certs,        \* names with a certificate in pki/issued
    crl,          \* names the certificate revocation list carries
    revokedCerts, \* names whose certificate easyrsa has revoked
    ovpn,         \* names with a /etc/openvpn/clients/<name>.ovpn
    serverConf,   \* content of /etc/openvpn/server.conf
    confBackup,   \* content of /etc/openvpn/server.conf.backup
    vslot         \* per request: handler position and locals

\* Outline API: the middleware chain in front of its /api routes.
VARIABLES
    ohits,        \* express-rate-limit: requests counted in the current window
    oareq         \* the request being handled, or the last one answered

\* WireGuard web server: the socket.io connections and their status timers.
VARIABLES
    sock          \* per socket: connection state, timer, timer ticks in flight

wgVars == <<clientConf, clientPng, wgConf, nextIp, keyCtr, slot, acked, revoked>>
outlineVars == <<users, okeys, oNextId, uuidCtr, oslot, returned, deletedOk>>
authVars == <<hits, areq>>
ovpnVars == <<certs, crl, revokedCerts, ovpn, serverConf, confBackup, vslot>>
oauthVars == <<ohits, oareq>>
socketVars == <<sock>>

vars == <<wgVars, outlineVars, authVars, ovpnVars, oauthVars, socketVars>>

\* What a step of one server leaves alone: the state of the other servers.
exceptWg == <<outlineVars, authVars, ovpnVars, oauthVars, socketVars>>
exceptOutline == <<wgVars, authVars, ovpnVars, oauthVars, socketVars>>
exceptAuth == <<wgVars, outlineVars, ovpnVars, oauthVars, socketVars>>
exceptOvpn == <<wgVars, outlineVars, authVars, oauthVars, socketVars>>
exceptOAuth == <<wgVars, outlineVars, authVars, ovpnVars, socketVars>>
exceptSocket == <<wgVars, outlineVars, authVars, ovpnVars, oauthVars>>

NoFile == [ip |-> 0, key |-> 0]
NoName == << >>

Line(kind, name, num) == [kind |-> kind, name |-> name, num |-> num]
IfaceLine == Line("iface", NoName, 0)
BlankLine == Line("blank", NoName, 0)

IdleSlot == [op |-> "none", name |-> NoName, pc |-> "idle", at |-> "idle",
             ip |-> 0, key |-> 0, rmkey |-> 0, rmip |-> 0]

(***************************************************************************)
(* Pure helpers.                                                           *)
(***************************************************************************)
IsPrefix(s, t) == Len(s) <= Len(t) /\ SubSeq(t, 1, Len(s)) = s

\* The five lines `cat >> "$CONFIG_FILE" <<EOF` appends for a client.
PeerBlock(n, k, ip) ==
    << BlankLine,
       Line("client", n, 0),
       Line("peerhdr", NoName, 0),
       Line("pubkey", NoName, k),
       Line("allowed", NoName, ip) >>

\* The regular expression "# Client: <n>" is not anchored: it matches the
\* comment line of every client whose name starts with n.
MatchesClient(line, n) == line.kind = "client" /\ IsPrefix(n, line.name)

\* sed -i "/# Client: <n>/,/^$/d": delete from a matching line through the
\* next empty line (or the end of the file), then look for a match again.
RECURSIVE SedFrom(_, _, _, _)
SedFrom(lines, n, i, inRange) ==
    IF i > Len(lines) THEN << >>
    ELSE IF inRange
         THEN SedFrom(lines, n, i + 1, lines[i].kind # "blank")
         ELSE IF MatchesClient(lines[i], n)
              THEN SedFrom(lines, n, i + 1, TRUE)
              ELSE << lines[i] >> \o SedFrom(lines, n, i + 1, FALSE)

SedDeleteClient(lines, n) == SedFrom(lines, n, 1, FALSE)

\* Keys that have a [Peer] block in wg0.conf.
ConfKeys(lines) == { lines[i].num : i \in { j \in 1..Len(lines) : lines[j].kind = "pubkey" } }

\* Number of [Peer] blocks wg0.conf holds for the name n.
BlockCount(lines, n) ==
    Cardinality({ j \in 1..Len(lines) : lines[j].kind = "client" /\ lines[j].name = n })

Exists(n) == clientConf[n] # NoFile

\* config.env without a NEXT_IP line is the value 0 of nextIp.
NoNextIp == 0

\* get_next_ip: the value after "NEXT_IP=", or 2 when grep finds none.
get_next_ip == IF nextIp = NoNextIp THEN FirstIp ELSE nextIp

\* update_next_ip: sed -i "s/NEXT_IP=.*/NEXT_IP=$new_ip/" rewrites the line
\* and adds none when it is missing.
update_next_ip(new_ip) == IF nextIp = NoNextIp THEN NoNextIp ELSE new_ip

(***************************************************************************)
(* Outline API: ids, the user list and the requests in flight.             *)
(***************************************************************************)
\* number of Outline API requests in flight at once
NumOSlots == 2
\* number of POST /api/users requests that get as far as uuidv4()
MaxCreates == 2

OSlots == 1..NumOSlots

\* An id is either one uuidv4() made in the API process or one the Outline
\* server gave to an access key; the two kinds of string never coincide.
Uuid(i) == [src |-> "uuid", n |-> i]
KeyId(i) == [src |-> "key", n |-> i]
NoId == [src |-> "none", n |-> 0]
Ids == { Uuid(i) : i \in 1..MaxCreates } \cup { KeyId(i) : i \in 1..MaxCreates }

\* An id made from the length of the list, as a counter-example to uuidv4.
uuidv4_ListLength == Uuid(Len(users) + 1)

\* uuidv4(): a version-4 UUID, taken to differ from every one made before.
uuidv4 == Uuid(uuidCtr + 1)

\* The Outline server numbers its access keys one after the other and does
\* not give the number of a deleted key to a later one.
NewAccessKey == KeyId(oNextId + 1)

\* An entry of `users` (name, dataUsage, created and accessKey play no part
\* in which entries the list holds).
User(id) == [id |-> id, status |-> "active"]

\* GET /access-keys answers the keys in the order they were created.
RECURSIVE AccessKeys(_)
AccessKeys(S) ==
    IF S = {} THEN << >>
    ELSE LET k == CHOOSE x \in S : \A y \in S : x.n <= y.n
         IN << [id |-> k] >> \o AccessKeys(S \ {k})

\* outlineUsers.accessKeys.map(key => ({id: key.id, ..., status: 'active'}))
MapKeys(keys) == [i \in 1..Len(keys) |-> User(keys[i].id)]

\* users.findIndex(u => u.id === userId): index from 0 of the first entry
\* with that id, -1 when there is none.
findIndex(list, id) ==
    IF \E i \in 1..Len(list) : list[i].id = id
    THEN (CHOOSE i \in 1..Len(list) :
              list[i].id = id /\ \A j \in 1..(i - 1) : list[j].id # id) - 1
    ELSE -1

\* users.splice(userIndex, 1): the list without the entry at that index
\* (from 0); an index past the end removes nothing.
splice(list, idx) ==
    IF idx < Len(list)
    THEN SubSeq(list, 1, idx) \o SubSeq(list, idx + 2, Len(list))
    ELSE list

\* The ids of the list's entries.
UserIds(list) == { list[i].id : i \in 1..Len(list) }

IdleOSlot == [op |-> "none", pc |-> "idle", id |-> NoId, idx |-> -1,
              ok |-> FALSE, key |-> NoId, snap |-> << >>, resp |-> 0]

InitOutline ==
    /\ users = << >>
    /\ okeys = {}
    /\ oNextId = 0
    /\ uuidCtr = 0
    /\ oslot = [p \in OSlots |-> IdleOSlot]
    /\ returned = << >>
    /\ deletedOk = {}

(***************************************************************************)
(* Initial state: a fresh installation (NEXT_IP=2, no client), or one      *)
(* whose counter earlier add-client / remove-client rounds have advanced   *)
(* to the last host of the /24 and whose clients have all been removed.    *)
(* (Those rounds leave empty lines at the end of wg0.conf; empty lines     *)
(* ahead of the first client block are outside every sed range and are     *)
(* left out.)                                                              *)
(***************************************************************************)
InitWg ==
    /\ clientConf = [n \in Names |-> NoFile]
    /\ clientPng = {}
    /\ wgConf = << IfaceLine >>
    /\ nextIp \in {FirstIp, PoolLast}
    /\ keyCtr = 0
    /\ slot = [p \in Slots |-> IdleSlot]
    /\ acked = {}
    /\ revoked = {}

(***************************************************************************)
(* WireGuard web server: requests, tokens and the rate limiter.            *)
(***************************************************************************)
\* rateLimit({ max: 100 }): requests per window that are let through
RateMax == 100
\* number of requests of one window counted beyond the limit
MaxOver == 1

\* The /api routes that carry authenticateToken, and the two that do not.
ProtectedRoutes ==
    { "GET /api/status", "GET /api/clients", "POST /api/clients",
      "DELETE /api/clients/:name", "GET /api/clients/:name/config",
      "GET /api/clients/:name/qr", "POST /api/server/restart", "GET /api/logs" }
OpenRoutes == { "POST /api/login", "POST /api/logout" }
Routes == ProtectedRoutes \cup OpenRoutes

\* What a request carries as a token, in the cookie or after "Bearer": none,
\* one jwt.verify rejects (malformed, wrongly signed, expired), one it accepts.
Tokens == { "none", "invalid", "valid" }

\* The command a route's handler executes, if any.
RouteCmd(route) ==
    CASE route = "GET /api/status" -> { "wg show wg0" }
      [] route = "POST /api/clients" -> { "wg-manage add-client" }
      [] route = "DELETE /api/clients/:name" -> { "wg-manage remove-client" }
      [] route = "POST /api/server/restart" -> { "systemctl restart wg-quick@wg0" }
      [] route = "GET /api/logs" -> { "journalctl" }
      [] route \in { "GET /api/clients", "GET /api/clients/:name/config",
                     "GET /api/clients/:name/qr" } -> { "read clients" }
      [] OTHER -> {}

\* The socket event a route's handler emits after its command succeeded.
RouteEvent(route) ==
    CASE route = "POST /api/clients" -> { "clientAdded" }
      [] route = "DELETE /api/clients/:name" -> { "clientRemoved" }
      [] route = "POST /api/server/restart" -> { "serverRestarted" }
      [] OTHER -> {}

\* The status a handler answers from its own check, before any command:
\* validation or "already exists" (400), "Client not found" (404), "Invalid
\* credentials" (401); 0 for a handler without such a check.
RouteReject(route) ==
    CASE route = "POST /api/clients" -> 400
      [] route \in { "GET /api/clients/:name/config", "GET /api/clients/:name/qr" } -> 404
      [] route = "POST /api/login" -> 401
      [] OTHER -> 0

NoReq == [route |-> "none", cookie |-> "none", header |-> "none", pc |-> "none",
          current |-> 0, ran |-> FALSE, code |-> 0, cmds |-> {}, events |-> {}]

\* req.cookies.token || req.headers.authorization?.split(' ')[1]
Token(req) == IF req.cookie # "none" THEN req.cookie ELSE req.header

jwt_verify(token) == token = "valid"

\* authenticateToken without the verification, as a counter-example.
authenticateToken_NoVerify(req) ==
    IF Token(req) = "none" THEN 401 ELSE 0

\* authenticateToken: the status it answers, or 0 when it calls next().
authenticateToken(req) ==
    IF Token(req) = "none" THEN 401
    ELSE IF jwt_verify(Token(req)) THEN 0 ELSE 400

InitAuth ==
    /\ hits = 0
    /\ areq = NoReq

(***************************************************************************)
(* OpenVPN API: clients, configuration contents and requests in flight.    *)
(***************************************************************************)
\* number of OpenVPN API requests in flight at once
NumVSlots == 2

VSlots == 1..NumVSlots

\* The client name of the requests (pki/issued also holds 'server').
VNames == { "alice" }

\* Contents of server.conf: the installed one and two a PUT can carry; a
\* file of no content is what a failed write can leave.
InstalledConf == "installed"
NewConfs == { "conf1", "conf2" }
EmptyFile == ""
\* req.body without a config
NoConfig == "undefined"

IdleVSlot == [op |-> "none", pc |-> "idle", name |-> "none", cfg |-> NoConfig,
              built |-> FALSE, did |-> << >>, unlinked |-> FALSE, resp |-> 0]

\* An awaited promise that resolves lets the handler go on; one that rejects
\* throws into the handler's catch, which answers 500, without the rejection
\* being passed on.
awaitResult_Swallow(s, ok, cmd, next) ==
    [s EXCEPT !.pc = next, !.did = Append(s.did, cmd)]

\* await execPromise(...) / await writeFile(...): the promise resolves and
\* the handler goes on, or it rejects and the handler's catch answers 500.
awaitResult(s, ok, cmd, next) ==
    IF ok THEN [s EXCEPT !.pc = next, !.did = Append(s.did, cmd)]
    ELSE [s EXCEPT !.pc = "done", !.resp = 500]

\* GET /api/clients: the names in pki/issued other than 'server'.
GetClients == certs \ {"server"}

InitOvpn ==
    /\ certs = {"server"}
    /\ crl = {}
    /\ revokedCerts = {}
    /\ ovpn = {}
    /\ serverConf = InstalledConf
    /\ confBackup = EmptyFile
    /\ vslot = [p \in VSlots |-> IdleVSlot]

(***************************************************************************)
(* Outline API: routes, tokens and the rate limiter.                       *)
(***************************************************************************)
\* rateLimit({ max: 100 }) of the Outline API
ORateMax == 100

\* The state-changing routes whose app.<method>(...) call names
\* authenticateToken.
OGuardedRoutes ==
    { "POST /api/access-keys", "DELETE /api/access-keys/:id",
      "PUT /api/access-keys/:id/name", "PUT /api/access-keys/:id/data-limit",
      "DELETE /api/access-keys/:id/data-limit", "PUT /api/server/name",
      "PUT /api/server/hostname", "PUT /api/server/port" }

\* The state-changing routes whose call names no middleware.
OUnguardedRoutes ==
    { "POST /api/users", "DELETE /api/users/:id", "PUT /api/users/:id",
      "POST /api/server/restart" }

OStateChanging == OGuardedRoutes \cup OUnguardedRoutes

\* What a route's handler changes: the user list, the Outline server (the
\* backend), the API process itself.
ORouteEffect(route) ==
    CASE route \in { "POST /api/users", "DELETE /api/users/:id", "PUT /api/users/:id" } ->
             { "users", "backend" }
      [] route = "POST /api/server/restart" -> { "process" }
      [] OTHER -> { "backend" }

NoOReq == [route |-> "none", header |-> "none", pc |-> "none", current |-> 0,
           ran |-> FALSE, code |-> 0, touched |-> {}]

\* authHeader && authHeader.split(' ')[1]
OToken(req) == req.header

\* authenticateToken of the Outline API: the status it answers, or 0 when
\* it calls next().
OutlineAuthenticateToken(req) ==
    IF OToken(req) = "none" THEN 401
    ELSE IF OToken(req) = "valid" THEN 0 ELSE 403

InitOAuth ==
    /\ ohits = 0
    /\ oareq = NoOReq

(***************************************************************************)
(* WireGuard web server: socket.io connections.                            *)
(***************************************************************************)
\* number of socket.io connections
NumSockets == 2
\* number of timer ticks of one socket waiting for getServerStatus at once
MaxTicks == 2

Sockets == 1..NumSockets

\* The commands getServerStatus awaits one after the other.
StatusCmds == << "wg show wg0", "systemctl is-active wg-quick@wg0", "uptime -p" >>
StatusSteps == 1..Len(StatusCmds)

NoTicks == [k \in StatusSteps |-> 0]

\* A socket before its connection: no timer, no tick; `late` records that
\* socket.emit('statusUpdate') was called on it after its disconnect, `got`
\* that it was called while it was connected.
NewSocket == [st |-> "new", timer |-> FALSE, ticks |-> NoTicks,
              got |-> FALSE, late |-> FALSE]

\* Timer ticks of socket s inside getServerStatus.
RECURSIVE SumTicks(_, _)
SumTicks(t, k) == IF k = 0 THEN 0 ELSE t[k] + SumTicks(t, k - 1)
InFlight(s) == SumTicks(sock[s].ticks, Len(StatusCmds))

\* The two 'disconnect' listeners: a log line, and clearInterval(statusInterval).
onDisconnect(so) == [so EXCEPT !.st = "disconnected", !.timer = FALSE]

InitSocket == sock = [s \in Sockets |-> NewSocket]

Init == InitWg /\ InitOutline /\ InitAuth /\ InitOvpn /\ InitOAuth /\ InitSocket

Goto(p, pc) == slot' = [slot EXCEPT ![p].pc = pc, ![p].at = slot[p].pc]

(***************************************************************************)
(* Web server, POST /api/clients: existence check, then exec of            *)
(* `wg-manage add-client <name>`.                                          *)
(***************************************************************************)
PostClient(p, n) ==
    /\ slot[p].pc = "idle"
    /\ keyCtr + Cardinality({q \in Slots : slot[q].op = "add" /\ slot[q].key = 0
                                           /\ slot[q].pc \in {"a_check", "a_getip"}}) < MaxAdds
    /\ slot' = [slot EXCEPT ![p] = [IdleSlot EXCEPT !.op = "add", !.name = n,
                                       !.pc = IF Exists(n) THEN "resp400" ELSE "a_check",
                                       !.at = "handler"]]
    /\ UNCHANGED <<clientConf, clientPng, wgConf, nextIp, keyCtr, acked, revoked>>
    /\ UNCHANGED exceptWg

(***************************************************************************)
(* Web server, DELETE /api/clients/:name: exec of                          *)
(* `wg-manage remove-client <name>` with no check of its own.              *)
(***************************************************************************)
DeleteClient(p, n) ==
    /\ slot[p].pc = "idle"
    /\ slot' = [slot EXCEPT ![p] = [IdleSlot EXCEPT !.op = "remove", !.name = n,
                                       !.pc = "r_check", !.at = "handler"]]
    /\ UNCHANGED <<clientConf, clientPng, wgConf, nextIp, keyCtr, acked, revoked>>
    /\ UNCHANGED exceptWg

(***************************************************************************)
(* add_client, step by step.                                               *)
(***************************************************************************)
\* [[ -f "$CLIENTS_DIR/$client_name.conf" ]] && return 1
AddCheck(p) ==
    /\ slot[p].pc = "a_check"
    /\ Goto(p, IF Exists(slot[p].name) THEN "exit1" ELSE "a_getip")
    /\ UNCHANGED <<clientConf, clientPng, wgConf, nextIp, keyCtr, acked, revoked>>
    /\ UNCHANGED exceptWg

\* next_ip=$(get_next_ip); client_private_key=$(wg genkey)
AddGetIp(p) ==
    /\ slot[p].pc = "a_getip"
    /\ keyCtr' = keyCtr + 1
    /\ slot' = [slot EXCEPT ![p].pc = "a_write", ![p].at = "a_getip",
                            ![p].ip = get_next_ip, ![p].key = keyCtr + 1]
    /\ UNCHANGED <<clientConf, clientPng, wgConf, nextIp, acked, revoked>>
    /\ UNCHANGED exceptWg

\* generate_client_config: cat > "$CLIENTS_DIR/$client_name.conf"
AddWrite(p) ==
    /\ slot[p].pc = "a_write"
    /\ clientConf' = [clientConf EXCEPT ![slot[p].name] = [ip |-> slot[p].ip, key |-> slot[p].key]]
    /\ Goto(p, "a_append")
    /\ UNCHANGED <<clientPng, wgConf, nextIp, keyCtr, acked, revoked>>
    /\ UNCHANGED exceptWg

\* cat >> "$CONFIG_FILE"
AddAppend(p) ==
    /\ slot[p].pc = "a_append"
    /\ wgConf' = wgConf \o PeerBlock(slot[p].name, slot[p].key, slot[p].ip)
    /\ Goto(p, "a_qr")
    /\ UNCHANGED <<clientConf, clientPng, nextIp, keyCtr, acked, revoked>>
    /\ UNCHANGED exceptWg

\* qrencode -t png -o <name>.png < <name>.conf : fails when the .conf is
\* gone, and may fail on its own.
AddQr(p) ==
    /\ slot[p].pc = "a_qr"
    /\ \/ /\ Exists(slot[p].name)
          /\ clientPng' = clientPng \cup {slot[p].name}
          /\ Goto(p, "a_updip")
       \/ /\ UNCHANGED clientPng
          /\ Goto(p, "exit1")
    /\ UNCHANGED <<clientConf, wgConf, nextIp, keyCtr, acked, revoked>>
    /\ UNCHANGED exceptWg

\* update_next_ip $((next_ip + 1))
AddUpdateIp(p) ==
    /\ slot[p].pc = "a_updip"
    /\ nextIp' = update_next_ip(slot[p].ip + 1)
    /\ Goto(p, "a_restart")
    /\ UNCHANGED <<clientConf, clientPng, wgConf, keyCtr, acked, revoked>>
    /\ UNCHANGED exceptWg

\* systemctl restart wg-quick@wg0, then the success messages
AddRestart(p) ==
    /\ slot[p].pc = "a_restart"
    /\ \/ /\ Goto(p, "exit0")
          /\ acked' = acked \cup {slot[p].key}
       \/ /\ Goto(p, "exit1")
          /\ UNCHANGED acked
    /\ UNCHANGED <<clientConf, clientPng, wgConf, nextIp, keyCtr, revoked>>
    /\ UNCHANGED exceptWg

(***************************************************************************)
(* remove_client, step by step.                                            *)
(***************************************************************************)
\* [[ ! -f "$CLIENTS_DIR/$client_name.conf" ]] && return 1
RemCheck(p) ==
    /\ slot[p].pc = "r_check"
    /\ Goto(p, IF Exists(slot[p].name) THEN "r_rm" ELSE "exit1")
    /\ UNCHANGED <<clientConf, clientPng, wgConf, nextIp, keyCtr, acked, revoked>>
    /\ UNCHANGED exceptWg

\* rm -f <name>.conf <name>.png
RemRm(p) ==
    /\ slot[p].pc = "r_rm"
    /\ clientConf' = [clientConf EXCEPT ![slot[p].name] = NoFile]
    /\ clientPng' = clientPng \ {slot[p].name}
    /\ slot' = [slot EXCEPT ![p].pc = "r_sed", ![p].at = "r_rm",
                            ![p].rmkey = clientConf[slot[p].name].key,
                            ![p].rmip = clientConf[slot[p].name].ip]
    /\ UNCHANGED <<wgConf, nextIp, keyCtr, acked, revoked>>
    /\ UNCHANGED exceptWg

\* sed -i "/# Client: $client_name/,/^$/d" "$CONFIG_FILE"
RemSed(p) ==
    /\ slot[p].pc = "r_sed"
    /\ wgConf' = SedDeleteClient(wgConf, slot[p].name)
    /\ Goto(p, "r_restart")
    /\ UNCHANGED <<clientConf, clientPng, nextIp, keyCtr, acked, revoked>>
    /\ UNCHANGED exceptWg

\* systemctl restart wg-quick@wg0
RemRestart(p) ==
    /\ slot[p].pc = "r_restart"
    /\ \/ /\ Goto(p, "exit0")
          /\ revoked' = IF slot[p].rmkey = 0 THEN revoked
                        ELSE revoked \cup {[key |-> slot[p].rmkey, ip |-> slot[p].rmip]}
       \/ /\ Goto(p, "exit1")
          /\ UNCHANGED revoked
    /\ UNCHANGED <<clientConf, clientPng, wgConf, nextIp, keyCtr, acked>>
    /\ UNCHANGED exceptWg

(***************************************************************************)
(* The handler answers (200 on status 0, 500 otherwise, 400 when the       *)
(* handler's own check found the file) and the request is over.            *)
(***************************************************************************)
Respond(p) ==
    /\ slot[p].pc \in {"exit0", "exit1", "resp400"}
    /\ slot' = [slot EXCEPT ![p] = IdleSlot]
    /\ UNCHANGED <<clientConf, clientPng, wgConf, nextIp, keyCtr, acked, revoked>>
    /\ UNCHANGED exceptWg

Next ==
    \E p \in Slots :
        \/ \E n \in Names : PostClient(p, n)
        \/ \E n \in Names : DeleteClient(p, n)
        \/ AddCheck(p)
        \/ AddGetIp(p)
        \/ AddWrite(p)
        \/ AddAppend(p)
        \/ AddQr(p)
        \/ AddUpdateIp(p)
        \/ AddRestart(p)
        \/ RemCheck(p)
        \/ RemRm(p)
        \/ RemSed(p)
        \/ RemRestart(p)
        \/ Respond(p)

Spec == Init /\ [][Next]_vars

(***************************************************************************)
(* State predicates shared by the properties.                              *)
(***************************************************************************)
Quiescent == \A p \in Slots : slot[p].pc = "idle"

\* Names that exist as a client (have a .conf file).
Clients == { n \in Names : Exists(n) }

\* Pool addresses no client holds.
FreeAddrs == { a \in Pool : \A n \in Clients : clientConf[n].ip # a }

\* Keys a completed remove-client has removed.
RevokedKeys == { r.key : r \in revoked }

\* Addresses get_next_ip can still hand out inside the /24.
AllocPool == { a \in Pool : a >= nextIp }

\* Lifecycle of the peer with key k, read off the files: Active when wg0.conf
\* holds its [Peer] block, Pending when only its client .conf exists.
Active(k) == k \in ConfKeys(wgConf)
Pending(k) == k \notin ConfKeys(wgConf) /\ \E n \in Names : clientConf[n].key = k

(***************************************************************************)
(* C1: no two existing clients hold the same 10.8.0.x address, whatever    *)
(* the interleaving of add-client / remove-client runs and wherever a run  *)
(* fails.                                                                  *)
(***************************************************************************)
C1_UniqueAddress ==
    \A n1 \in Clients : \A n2 \in Clients :
        n1 # n2 => clientConf[n1].ip # clientConf[n2].ip

(***************************************************************************)
(* C2: revoke wins.  A peer whose remove-client has completed with status  *)
(* 0 has no [Peer] block in wg0.conf, also when the add-client that        *)
(* created it is still running and appends its block afterwards.           *)
(***************************************************************************)
C2_RevokeWins == \A k \in RevokedKeys : ~Active(k)

(***************************************************************************)
(* C3: round trip.  Once all requests are answered, a peer whose           *)
(* add-client succeeded and whose remove-client succeeded is absent from   *)
(* wg0.conf and its address is back among the addresses the allocator      *)
(* hands out.                                                              *)
(***************************************************************************)
C3_RoundTrip ==
    Quiescent =>
        \A r \in revoked :
            r.key \in acked => (~Active(r.key) /\ r.ip \in AllocPool)

(***************************************************************************)
(* C4: pool exhaustion and reuse.  Once all requests are answered and the  *)
(* address of a removed client is free again, the next add-client (which   *)
(* is given NEXT_IP) receives a free address of the pool.                  *)
(***************************************************************************)
C4_FreedAddressReused ==
    (Quiescent /\ \E r \in revoked : r.ip \in FreeAddrs) => nextIp \in FreeAddrs

(***************************************************************************)
(* C8: a peer's lifecycle is monotonic: no step takes an Active peer back  *)
(* to Pending, and no step makes a peer whose removal has completed        *)
(* Active or Pending again.                                                *)
(***************************************************************************)
C8_Monotonic ==
    [][\A k \in Keys :
          /\ Active(k) => ~Pending(k)'
          /\ k \in RevokedKeys => (~Active(k)' /\ ~Pending(k)')]_vars

(***************************************************************************)
(* C9: names are unique among the peers: wg0.conf never holds two [Peer]   *)
(* blocks for one client name, also when two creates of the same name run  *)
(* concurrently.                                                           *)
(***************************************************************************)
C9_UniqueName == \A n \in Names : BlockCount(wgConf, n) <= 1

(***************************************************************************)
(* C10: a remove-client that ends in failure is the NotFound case: it      *)
(* ended at the existence check and removed no file and no [Peer] block;   *)
(* and a remove-client that ends with status 0 has removed a client that   *)
(* existed, so that of two revokes of one peer the second one fails.       *)
(***************************************************************************)
C10_FailedRevokeChangesNothing ==
    \A p \in Slots :
        slot[p].op = "remove" =>
            /\ slot[p].pc = "exit1" => (slot[p].at = "r_check" /\ slot[p].rmkey = 0)
            /\ slot[p].pc = "exit0" => slot[p].rmkey # 0

\* remove-client runs between its start and its last command.
Removing(q) ==
    slot[q].op = "remove" /\ slot[q].pc \in {"r_check", "r_rm", "r_sed", "r_restart"}

\* The address of the client a running remove-client is removing: the one in
\* its .conf while the file is there, the one rm took away afterwards.
RemovingIp(q) ==
    IF Exists(slot[q].name) THEN clientConf[slot[q].name].ip ELSE slot[q].rmip

(***************************************************************************)
(* C13: between the start of a remove-client and its end (the removal      *)
(* ack), no add-client is given the address of the client being removed.   *)
(***************************************************************************)
C13_NoReuseBeforeRemovalAck ==
    [][\A p \in Slots :
          (slot[p].pc = "a_getip" /\ slot'[p].pc = "a_write") =>
              \A q \in Slots :
                  (Removing(q) /\ RemovingIp(q) # 0) => slot'[p].ip # RemovingIp(q)]_vars

(***************************************************************************)
(* C14: the host number written into a client's 10.8.0.x address is        *)
(* always between 2 and 254, however many add-client calls were made.      *)
(***************************************************************************)
C14_AddressInPool == \A n \in Clients : clientConf[n].ip \in Pool

(***************************************************************************)
(* C18: remove-client <name> removes that client only: its rm leaves the   *)
(* .conf and .png of every other client as they were, and its sed leaves   *)
(* the [Peer] blocks of every other client in wg0.conf, also those of      *)
(* clients whose name starts with <name>.                                  *)
(***************************************************************************)
C18_RemoveOnlyNamed ==
    [][\A p \in Slots : \A n \in Names \ {slot[p].name} :
          /\ (slot[p].pc = "r_rm" /\ slot'[p].pc = "r_sed") =>
                 (clientConf'[n] = clientConf[n] /\ (n \in clientPng' <=> n \in clientPng))
          /\ (slot[p].pc = "r_sed" /\ slot'[p].pc = "r_restart") =>
                 BlockCount(wgConf', n) = BlockCount(wgConf, n)]_vars

(***************************************************************************)
(* Outline API (src/outline/api/server.js).  A handler runs up to its      *)
(* `await callOutlineAPI(...)`, the Outline server answers the call or the *)
(* call fails (callOutlineAPI throws, the handler's inner catch logs a     *)
(* warning), and the handler runs on to its response.  Node runs each of   *)
(* these pieces without interruption; other requests run between them.     *)
(***************************************************************************)
\* GET /api/users, up to the await
UsersGet(p) ==
    /\ oslot[p].pc = "idle"
    /\ oslot' = [oslot EXCEPT ![p] = [IdleOSlot EXCEPT !.op = "list", !.pc = "sent"]]
    /\ UNCHANGED <<users, okeys, oNextId, uuidCtr, returned, deletedOk>>
    /\ UNCHANGED exceptOutline

\* POST /api/users, up to the await: 400 without a name, else userId = uuidv4()
UsersPost(p, named) ==
    /\ oslot[p].pc = "idle"
    /\ IF named
       THEN /\ uuidCtr < MaxCreates
            /\ uuidCtr' = uuidCtr + 1
            /\ oslot' = [oslot EXCEPT ![p] = [IdleOSlot EXCEPT !.op = "create", !.pc = "sent",
                                                 !.id = uuidv4]]
       ELSE /\ UNCHANGED uuidCtr
            /\ oslot' = [oslot EXCEPT ![p] = [IdleOSlot EXCEPT !.resp = 400]]
    /\ UNCHANGED <<users, okeys, oNextId, returned, deletedOk>>
    /\ UNCHANGED exceptOutline

\* DELETE /api/users/:id, up to the await: userIndex = users.findIndex(...),
\* 404 when it is -1
UsersDelete(p, id) ==
    /\ oslot[p].pc = "idle"
    /\ oslot' = [oslot EXCEPT ![p] =
                    IF findIndex(users, id) = -1
                    THEN [IdleOSlot EXCEPT !.resp = 404]
                    ELSE [IdleOSlot EXCEPT !.op = "delete", !.pc = "sent", !.id = id,
                                           !.idx = findIndex(users, id)]]
    /\ UNCHANGED <<users, okeys, oNextId, uuidCtr, returned, deletedOk>>
    /\ UNCHANGED exceptOutline

\* The Outline server answers the call: the list of access keys, a new
\* access key, or the removal of the key (an error status for a key it does
\* not hold, on which axios throws).
OutlineServe(p) ==
    /\ oslot[p].pc = "sent"
    /\ \/ /\ oslot[p].op = "list"
          /\ oslot' = [oslot EXCEPT ![p].pc = "reply", ![p].ok = TRUE,
                                    ![p].snap = AccessKeys(okeys)]
          /\ UNCHANGED <<okeys, oNextId>>
       \/ /\ oslot[p].op = "create"
          /\ okeys' = okeys \cup {NewAccessKey}
          /\ oNextId' = oNextId + 1
          /\ oslot' = [oslot EXCEPT ![p].pc = "reply", ![p].ok = TRUE,
                                    ![p].key = NewAccessKey]
       \/ /\ oslot[p].op = "delete"
          /\ okeys' = okeys \ {oslot[p].id}
          /\ oslot' = [oslot EXCEPT ![p].pc = "reply", ![p].ok = oslot[p].id \in okeys]
          /\ UNCHANGED oNextId
    /\ UNCHANGED <<users, uuidCtr, returned, deletedOk>>
    /\ UNCHANGED exceptOutline

\* The call fails (server unreachable, or no answer within the 10 s timeout).
OutlineFail(p) ==
    /\ oslot[p].pc = "sent"
    /\ oslot' = [oslot EXCEPT ![p].pc = "reply", ![p].ok = FALSE]
    /\ UNCHANGED <<users, okeys, oNextId, uuidCtr, returned, deletedOk>>
    /\ UNCHANGED exceptOutline

\* GET /api/users, after the await: with an answer, `users` becomes the
\* server's keys; res.json(users)
UsersGetDone(p) ==
    /\ oslot[p].pc = "reply" /\ oslot[p].op = "list"
    /\ users' = IF oslot[p].ok THEN MapKeys(oslot[p].snap) ELSE users
    /\ oslot' = [oslot EXCEPT ![p] = [IdleOSlot EXCEPT !.resp = 200]]
    /\ UNCHANGED <<okeys, oNextId, uuidCtr, returned, deletedOk>>
    /\ UNCHANGED exceptOutline

\* The id of newUser after the inner try of POST /api/users.
NewUserId(p) == IF oslot[p].ok THEN oslot[p].key ELSE oslot[p].id

\* POST /api/users, after the await: users.push(newUser); 201 with newUser
UsersPostDone(p) ==
    /\ oslot[p].pc = "reply" /\ oslot[p].op = "create"
    /\ users' = Append(users, User(NewUserId(p)))
    /\ returned' = Append(returned, [id |-> NewUserId(p), gone |-> deletedOk])
    /\ oslot' = [oslot EXCEPT ![p] = [IdleOSlot EXCEPT !.resp = 201]]
    /\ UNCHANGED <<okeys, oNextId, uuidCtr, deletedOk>>
    /\ UNCHANGED exceptOutline

\* DELETE /api/users/:id, after the await: users.splice(userIndex, 1) with
\* the index found before the await.  With the index past the end of the
\* list splice removes nothing, deletedUser is undefined, reading its name
\* throws and the outer catch answers 500.
UsersDeleteDone(p) ==
    /\ oslot[p].pc = "reply" /\ oslot[p].op = "delete"
    /\ users' = splice(users, oslot[p].idx)
    /\ IF oslot[p].idx < Len(users)
       THEN /\ deletedOk' = deletedOk \cup {oslot[p].id}
            /\ oslot' = [oslot EXCEPT ![p] = [IdleOSlot EXCEPT !.resp = 200]]
       ELSE /\ UNCHANGED deletedOk
            /\ oslot' = [oslot EXCEPT ![p] = [IdleOSlot EXCEPT !.resp = 500]]
    /\ UNCHANGED <<okeys, oNextId, uuidCtr, returned>>
    /\ UNCHANGED exceptOutline

NextOutline ==
    \E p \in OSlots :
        \/ UsersGet(p)
        \/ \E named \in BOOLEAN : UsersPost(p, named)
        \/ \E id \in Ids : UsersDelete(p, id)
        \/ OutlineServe(p)
        \/ OutlineFail(p)
        \/ UsersGetDone(p)
        \/ UsersPostDone(p)
        \/ UsersDeleteDone(p)

\* The Outline API beside a freshly installed WireGuard manager.
InitO == InitWg /\ nextIp = FirstIp /\ InitOutline /\ InitAuth /\ InitOvpn /\ InitOAuth /\ InitSocket

SpecOutline == InitO /\ [][NextOutline]_vars

\* Every Outline API request has been answered.
OQuiescent == \A p \in OSlots : oslot[p].pc = "idle"

\* Ids POST /api/users has answered with 201.
ReturnedIds == { returned[i].id : i \in 1..Len(returned) }

\* Ids of access keys the Outline server has acknowledged creating.
AckedIds == { KeyId(i) : i \in 1..oNextId }

(***************************************************************************)
(* C11: no user record is silently dropped: once every request is          *)
(* answered, every user a POST /api/users has created and no DELETE has    *)
(* answered for is in the list GET /api/users returns, also when the       *)
(* create ran while the Outline server was unreachable.                    *)
(***************************************************************************)
C11_NoSilentDrop ==
    OQuiescent => \A id \in ReturnedIds \ deletedOk : id \in UserIds(users)

(***************************************************************************)
(* C12: a user is listed with status 'active' only after the Outline       *)
(* server has acknowledged creating the access key with that id.           *)
(***************************************************************************)
C12_ActiveOnlyAfterAck ==
    \A i \in 1..Len(users) : users[i].status = "active" => users[i].id \in AckedIds

(***************************************************************************)
(* C15: every id POST /api/users returns differs from every id it          *)
(* returned before, including the ids of users deleted since.              *)
(***************************************************************************)
C15_IdsNeverReused ==
    \A i \in 1..Len(returned) : \A j \in 1..Len(returned) :
        i # j => returned[i].id # returned[j].id

\* Two ids were returned, the second after the user with the first had been
\* deleted, both made by uuidv4() while the Outline server was unreachable.
C15_Witness ==
    /\ Len(returned) = 2
    /\ returned[1].id \in returned[2].gone
    /\ returned[1].id.src = "uuid"
    /\ returned[2].id.src = "uuid"

(***************************************************************************)
(* C17: a DELETE /api/users/:id that answers 'User deleted successfully'   *)
(* for id X has removed X from the user list and has left every user with  *)
(* another id in it, whatever requests ran while it was waiting for the    *)
(* Outline server.                                                         *)
(***************************************************************************)
C17_DeleteExactlyThatUser ==
    [][\A p \in OSlots :
          (oslot[p].op = "delete" /\ oslot[p].pc = "reply" /\ oslot'[p].resp = 200) =>
              /\ oslot[p].id \notin UserIds(users')
              /\ \A id \in UserIds(users) \ {oslot[p].id} : id \in UserIds(users')]_vars

(***************************************************************************)
(* WireGuard web server (src/unnamed/part_000): a request to an /api route *)
(* passes the rate limiter, then the route's middleware, then its handler. *)
(***************************************************************************)
\* app.use('/api/', limiter): the request is counted; beyond max it is
\* answered 429 and goes no further.
ApiRequest(route, cookie, header) ==
    /\ areq.pc \in {"none", "done"}
    /\ hits < RateMax + MaxOver
    /\ hits' = hits + 1
    /\ areq' = IF hits + 1 > RateMax
               THEN [NoReq EXCEPT !.route = route, !.cookie = cookie, !.header = header,
                                  !.current = hits + 1, !.pc = "done", !.code = 429]
               ELSE [NoReq EXCEPT !.route = route, !.cookie = cookie, !.header = header,
                                  !.current = hits + 1, !.pc = "route"]
    /\ UNCHANGED exceptAuth

\* The route: authenticateToken in front of the protected handlers, the
\* handler directly for login and logout.
Dispatch ==
    /\ areq.pc = "route"
    /\ areq' = IF areq.route \in ProtectedRoutes /\ authenticateToken(areq) # 0
               THEN [areq EXCEPT !.pc = "done", !.code = authenticateToken(areq)]
               ELSE [areq EXCEPT !.pc = "handler", !.ran = TRUE]
    /\ UNCHANGED hits
    /\ UNCHANGED exceptAuth

\* The handler: its own check answers, or it runs its command and answers
\* 200 (and emits its event) or, the command having failed, 500.
Handle(outcome) ==
    /\ areq.pc = "handler"
    /\ \/ /\ outcome = "reject"
          /\ RouteReject(areq.route) # 0
          /\ areq' = [areq EXCEPT !.pc = "done", !.code = RouteReject(areq.route)]
       \/ /\ outcome = "ok"
          /\ areq' = [areq EXCEPT !.pc = "done", !.code = 200,
                                  !.cmds = RouteCmd(areq.route),
                                  !.events = RouteEvent(areq.route)]
       \/ /\ outcome = "fail"
          /\ RouteCmd(areq.route) # {}
          /\ areq' = [areq EXCEPT !.pc = "done", !.code = 500,
                                  !.cmds = RouteCmd(areq.route)]
    /\ UNCHANGED hits
    /\ UNCHANGED exceptAuth

\* windowMs: the 15-minute window ends and the count starts again.
WindowReset ==
    /\ hits > 0
    /\ hits' = 0
    /\ UNCHANGED areq
    /\ UNCHANGED exceptAuth

NextAuth ==
    \/ \E route \in Routes : \E cookie \in Tokens : \E header \in Tokens :
           ApiRequest(route, cookie, header)
    \/ Dispatch
    \/ \E outcome \in {"reject", "ok", "fail"} : Handle(outcome)
    \/ WindowReset

\* The web server's middleware chain beside a freshly installed manager.
InitA == InitWg /\ nextIp = FirstIp /\ InitOutline /\ InitAuth /\ InitOvpn /\ InitOAuth /\ InitSocket

SpecAuth == InitA /\ [][NextAuth]_vars

\* The request was given to its handler, or something was done for it.
HandlerRan == areq.ran \/ areq.cmds # {} \/ areq.events # {}

C22_AppendIdempotent ==
    [][\A p \in Slots :
          (slot[p].pc = "a_append" /\ slot'[p].pc = "a_qr") =>
              BlockCount(wgConf', slot[p].name) = 1]_vars

(***************************************************************************)
(* C23: add-client is all-or-nothing: when it has ended with a non-zero    *)
(* status, no client .conf and no [Peer] block written by that run is      *)
(* left, and NEXT_IP is not past the address the run was given.            *)
(***************************************************************************)
C23_FailedAddLeavesNothing ==
    \A p \in Slots :
        (slot[p].op = "add" /\ slot[p].pc = "exit1" /\ slot[p].key # 0) =>
            /\ \A n \in Names : clientConf[n].key # slot[p].key
            /\ slot[p].key \notin ConfKeys(wgConf)
            /\ nextIp <= slot[p].ip

(***************************************************************************)
(* OpenVPN API (src/openvpn/ui/app.js, lines 661-996).  Each handler is a  *)
(* chain of awaited commands; between two of them other requests run.  A   *)
(* command may fail for reasons of its own (ok = FALSE).                   *)
(***************************************************************************)
VFree(p) == vslot[p].pc \in {"idle", "done"}

\* POST /api/clients, up to the first await: 400 for a missing or
\* ill-formed clientName
VpnPost(p, n, wellFormed) ==
    /\ VFree(p)
    /\ vslot' = [vslot EXCEPT ![p] =
                    IF wellFormed
                    THEN [IdleVSlot EXCEPT !.op = "create", !.name = n, !.pc = "build"]
                    ELSE [IdleVSlot EXCEPT !.op = "create", !.name = n, !.pc = "done",
                                           !.resp = 400]]
    /\ UNCHANGED <<certs, crl, revokedCerts, ovpn, serverConf, confBackup>>
    /\ UNCHANGED exceptOvpn

\* ./easyrsa build-client-full <name> nopass: issues the certificate, and
\* refuses a name that has one
VpnBuild(p, ok) ==
    /\ vslot[p].pc = "build"
    /\ LET done == ok /\ vslot[p].name \notin certs
       IN /\ certs' = IF done THEN certs \cup {vslot[p].name} ELSE certs
          /\ vslot' = [vslot EXCEPT ![p] =
                          [awaitResult(vslot[p], done, "build-client-full", "write")
                              EXCEPT !.built = done]]
    /\ UNCHANGED <<crl, revokedCerts, ovpn, serverConf, confBackup>>
    /\ UNCHANGED exceptOvpn

\* writeFile(`/etc/openvpn/clients/${clientName}.ovpn`, clientConfig), then
\* the success answer
VpnWrite(p, ok) ==
    /\ vslot[p].pc = "write"
    /\ ovpn' = IF ok THEN ovpn \cup {vslot[p].name} ELSE ovpn
    /\ vslot' = [vslot EXCEPT ![p] =
                    [awaitResult(vslot[p], ok, "writeFile", "done")
                        EXCEPT !.resp = IF ok THEN 200 ELSE 500]]
    /\ UNCHANGED <<certs, crl, revokedCerts, serverConf, confBackup>>
    /\ UNCHANGED exceptOvpn

\* DELETE /api/clients/:clientName, up to the first await
VpnDelete(p, n) ==
    /\ VFree(p)
    /\ vslot' = [vslot EXCEPT ![p] =
                    [IdleVSlot EXCEPT !.op = "delete", !.name = n, !.pc = "revoke"]]
    /\ UNCHANGED <<certs, crl, revokedCerts, ovpn, serverConf, confBackup>>
    /\ UNCHANGED exceptOvpn

\* ./easyrsa revoke <name>: moves the certificate out of pki/issued, and
\* fails for a name that has none
VpnRevoke(p, ok) ==
    /\ vslot[p].pc = "revoke"
    /\ LET done == ok /\ vslot[p].name \in certs
       IN /\ certs' = IF done THEN certs \ {vslot[p].name} ELSE certs
          /\ revokedCerts' = IF done THEN revokedCerts \cup {vslot[p].name}
                             ELSE revokedCerts
          /\ vslot' = [vslot EXCEPT ![p] = awaitResult(vslot[p], done, "revoke", "gencrl")]
    /\ UNCHANGED <<crl, ovpn, serverConf, confBackup>>
    /\ UNCHANGED exceptOvpn

\* ./easyrsa gen-crl
VpnGenCrl(p, ok) ==
    /\ vslot[p].pc = "gencrl"
    /\ crl' = IF ok THEN revokedCerts ELSE crl
    /\ vslot' = [vslot EXCEPT ![p] = awaitResult(vslot[p], ok, "gen-crl", "unlink")]
    /\ UNCHANGED <<certs, revokedCerts, ovpn, serverConf, confBackup>>
    /\ UNCHANGED exceptOvpn

\* if (fs.existsSync(configPath)) fs.unlinkSync(configPath), then the
\* success answer
VpnUnlink(p) ==
    /\ vslot[p].pc = "unlink"
    /\ ovpn' = ovpn \ {vslot[p].name}
    /\ vslot' = [vslot EXCEPT ![p].pc = "done", ![p].resp = 200,
                              ![p].unlinked = vslot[p].name \in ovpn]
    /\ UNCHANGED <<certs, crl, revokedCerts, serverConf, confBackup>>
    /\ UNCHANGED exceptOvpn

\* PUT /api/config, up to the first await: 400 without a config
VpnPut(p, cfg) ==
    /\ VFree(p)
    /\ vslot' = [vslot EXCEPT ![p] =
                    IF cfg = NoConfig
                    THEN [IdleVSlot EXCEPT !.op = "put", !.pc = "done", !.resp = 400]
                    ELSE [IdleVSlot EXCEPT !.op = "put", !.cfg = cfg, !.pc = "backup"]]
    /\ UNCHANGED <<certs, crl, revokedCerts, ovpn, serverConf, confBackup>>
    /\ UNCHANGED exceptOvpn

\* cp /etc/openvpn/server.conf /etc/openvpn/server.conf.backup
VpnBackup(p, ok) ==
    /\ vslot[p].pc = "backup"
    /\ confBackup' = IF ok THEN serverConf ELSE confBackup
    /\ vslot' = [vslot EXCEPT ![p] = awaitResult(vslot[p], ok, "cp", "writeconf")]
    /\ UNCHANGED <<certs, crl, revokedCerts, ovpn, serverConf>>
    /\ UNCHANGED exceptOvpn

\* writeFile('/etc/openvpn/server.conf', config), then the success answer; a
\* write that fails leaves the file as it was or emptied.
VpnWriteConf(p, ok) ==
    /\ vslot[p].pc = "writeconf"
    /\ IF ok THEN serverConf' = vslot[p].cfg
             ELSE serverConf' \in {serverConf, EmptyFile}
    /\ vslot' = [vslot EXCEPT ![p] =
                    [awaitResult(vslot[p], ok, "writeFile", "done")
                        EXCEPT !.resp = IF ok THEN 200 ELSE 500]]
    /\ UNCHANGED <<certs, crl, revokedCerts, ovpn, confBackup>>
    /\ UNCHANGED exceptOvpn

NextOvpn ==
    \E p \in VSlots :
        \/ \E n \in VNames : \E wellFormed \in BOOLEAN : VpnPost(p, n, wellFormed)
        \/ \E ok \in BOOLEAN : VpnBuild(p, ok)
        \/ \E ok \in BOOLEAN : VpnWrite(p, ok)
        \/ \E n \in VNames : VpnDelete(p, n)
        \/ \E ok \in BOOLEAN : VpnRevoke(p, ok)
        \/ \E ok \in BOOLEAN : VpnGenCrl(p, ok)
        \/ VpnUnlink(p)
        \/ \E cfg \in NewConfs \cup {NoConfig} : VpnPut(p, cfg)
        \/ \E ok \in BOOLEAN : VpnBackup(p, ok)
        \/ \E ok \in BOOLEAN : VpnWriteConf(p, ok)

\* The OpenVPN API beside a freshly installed WireGuard manager.
InitV == InitWg /\ nextIp = FirstIp /\ InitOutline /\ InitAuth /\ InitOvpn /\ InitOAuth /\ InitSocket

SpecOvpn == InitV /\ [][NextOvpn]_vars

(***************************************************************************)
(* C25: POST /api/clients is all-or-nothing: a request answered 400 or     *)
(* 500 has left behind no certificate it issued (so GET /api/clients does  *)
(* not return the name on its account) and no .ovpn file.                  *)
(***************************************************************************)
C25_FailedCreateLeavesNothing ==
    \A p \in VSlots :
        (vslot[p].op = "create" /\ vslot[p].pc = "done" /\ vslot[p].resp \in {400, 500}) =>
            ~(vslot[p].built /\ vslot[p].name \in GetClients)

C28_BackupHoldsPrevious ==
    [][\A p \in VSlots :
          vslot[p].op = "put" =>
              /\ (vslot[p].pc = "backup" /\ vslot'[p].pc = "done") =>
                     (vslot'[p].resp = 500 /\ serverConf' = serverConf)
              /\ (vslot[p].pc = "writeconf" /\ vslot'[p].resp = 200) =>
                     (vslot[p].did = << "cp" >> /\ confBackup' = serverConf)]_vars

(***************************************************************************)
(* Outline API (src/outline/api/server.js): a request to a state-changing  *)
(* route passes the rate limiter, then authenticateToken where the route   *)
(* names it, then the handler.                                             *)
(***************************************************************************)
\* app.use('/api/', limiter)
OApiRequest(route, header) ==
    /\ oareq.pc \in {"none", "done"}
    /\ ohits < ORateMax + MaxOver
    /\ ohits' = ohits + 1
    /\ oareq' = IF ohits + 1 > ORateMax
                THEN [NoOReq EXCEPT !.route = route, !.header = header,
                                    !.current = ohits + 1, !.pc = "done", !.code = 429]
                ELSE [NoOReq EXCEPT !.route = route, !.header = header,
                                    !.current = ohits + 1, !.pc = "route"]
    /\ UNCHANGED exceptOAuth

\* The route: authenticateToken where it is named, else the handler at once.
ODispatch ==
    /\ oareq.pc = "route"
    /\ oareq' = IF oareq.route \in OGuardedRoutes /\ OutlineAuthenticateToken(oareq) # 0
                THEN [oareq EXCEPT !.pc = "done", !.code = OutlineAuthenticateToken(oareq)]
                ELSE [oareq EXCEPT !.pc = "handler", !.ran = TRUE]
    /\ UNCHANGED ohits
    /\ UNCHANGED exceptOAuth

\* The handler: it changes what the route is for and answers (a 2xx status,
\* or 4xx/5xx from its own checks and failures).
OHandle(code) ==
    /\ oareq.pc = "handler"
    /\ oareq' = [oareq EXCEPT !.pc = "done", !.code = code,
                              !.touched = IF code \in {200, 201}
                                          THEN ORouteEffect(oareq.route) ELSE {}]
    /\ UNCHANGED ohits
    /\ UNCHANGED exceptOAuth

\* windowMs: the window ends and the count starts again.
OWindowReset ==
    /\ ohits > 0
    /\ ohits' = 0
    /\ UNCHANGED oareq
    /\ UNCHANGED exceptOAuth

NextOAuth ==
    \/ \E route \in OStateChanging : \E header \in Tokens : OApiRequest(route, header)
    \/ ODispatch
    \/ \E code \in {200, 201, 400, 404, 500} : OHandle(code)
    \/ OWindowReset

\* The Outline API's middleware chain beside a freshly installed manager.
InitOA == InitWg /\ nextIp = FirstIp /\ InitOutline /\ InitAuth /\ InitOvpn /\ InitOAuth /\ InitSocket

SpecOAuth == InitOA /\ [][NextOAuth]_vars

(***************************************************************************)
(* C24: every state-changing endpoint of the Outline API runs only for a   *)
(* request with a valid JWT; a request the limiter lets through without    *)
(* one is answered 401 (no token) or 403 (invalid token) and the user      *)
(* list, the backend and the process are left untouched.                   *)
(***************************************************************************)
C24_StateChangeNeedsJwt ==
    oareq.route \in OStateChanging =>
        /\ (oareq.ran \/ oareq.touched # {}) => OToken(oareq) = "valid"
        /\ (oareq.pc = "done" /\ oareq.current <= ORateMax /\ OToken(oareq) = "none") =>
               oareq.code = 401
        /\ (oareq.pc = "done" /\ oareq.current <= ORateMax /\ OToken(oareq) = "invalid") =>
               oareq.code = 403

(***************************************************************************)
(* WireGuard web server (src/unnamed/part_000, lines 392-412): every       *)
(* connection starts a 5-second interval whose callback awaits             *)
(* getServerStatus and then emits 'statusUpdate' on the socket.            *)
(***************************************************************************)
\* io.on('connection'): setInterval(..., 5000)
SocketConnect(s) ==
    /\ sock[s].st = "new"
    /\ sock' = [sock EXCEPT ![s].st = "connected", ![s].timer = TRUE]
    /\ UNCHANGED exceptSocket

\* The interval fires: the callback starts getServerStatus, which runs its
\* first command.
TimerTick(s) ==
    /\ sock[s].timer
    /\ InFlight(s) < MaxTicks
    /\ sock' = [sock EXCEPT ![s].ticks[1] = @ + 1]
    /\ UNCHANGED exceptSocket

\* A command of getServerStatus has succeeded and the next one starts.
StatusStep(s, k) ==
    /\ k < Len(StatusCmds)
    /\ sock[s].ticks[k] > 0
    /\ sock' = [sock EXCEPT ![s].ticks[k] = @ - 1, ![s].ticks[k + 1] = @ + 1]
    /\ UNCHANGED exceptSocket

\* getServerStatus returns, after its last command or from its catch when
\* command k failed, and the callback calls socket.emit('statusUpdate', status).
StatusEmit(s, k) ==
    /\ sock[s].ticks[k] > 0
    /\ sock' = [sock EXCEPT ![s].ticks[k] = @ - 1,
                            ![s].got = @ \/ sock[s].st = "connected",
                            ![s].late = @ \/ sock[s].st = "disconnected"]
    /\ UNCHANGED exceptSocket

\* The socket disconnects and its 'disconnect' listeners run.
SocketDisconnect(s) ==
    /\ sock[s].st = "connected"
    /\ sock' = [sock EXCEPT ![s] = onDisconnect(sock[s])]
    /\ UNCHANGED exceptSocket

NextSocket ==
    \E s \in Sockets :
        \/ SocketConnect(s)
        \/ TimerTick(s)
        \/ \E k \in StatusSteps : StatusStep(s, k)
        \/ \E k \in StatusSteps : StatusEmit(s, k)
        \/ SocketDisconnect(s)

\* The socket.io connections beside a freshly installed manager.
InitS == InitWg /\ nextIp = FirstIp /\ InitOutline /\ InitAuth /\ InitOvpn /\ InitOAuth /\ InitSocket

SpecSocket == InitS /\ [][NextSocket]_vars

(***************************************************************************)
(* C26: for every socket that has disconnected, its status timer is        *)
(* cleared and no statusUpdate has been emitted on it since, also when a   *)
(* timer tick was waiting for getServerStatus at the disconnect.           *)
(***************************************************************************)
C26_NoEmitAfterDisconnect ==
    \A s \in Sockets :
        sock[s].st = "disconnected" => (~sock[s].timer /\ ~sock[s].late)
====
